---- MODULE Spec2Model ----
(***************************************************************************)
(* The scrubbing engine of mattermost-log-scrubber: the Scrubber session   *)
(* (identity table, domain aliases, replacement caches, audit ledger), the *)
(* line processor (processLogLine and its four masking passes), the level  *)
(* policy (scrubIPByLevel, scrubUIDByLevel) and the ProcessFile loop.      *)
(*                                                                         *)
(* Strings are sequences of one-character strings, so that ToLower, Split, *)
(* Repeat and Sprintf are computed rather than assumed.  A line of text is *)
(* a sequence of fields (key, value, quoted or bare, owning object); each  *)
(* regular expression matches a field's value as a whole or not at all.    *)
(***************************************************************************)
EXTENDS Integers, Sequences, FiniteSets, TLC

VARIABLES
    scrubber,        \* the Scrubber of the run (struct Scrubber)
    pc,              \* the run's position: "start", "loop", "done" or "end"
    lineCount,       \* ProcessFile local
    processedCount,  \* ProcessFile local
    emptyCount,      \* ProcessFile local
    failedCount,     \* ProcessFile local
    input,           \* the non-blank lines the scanner has delivered so far
    before,          \* per delivered line, the Scrubber as processLogLine found it
    masked,          \* per delivered line, the text the masking passes returned
    output,          \* the lines written to the output writer
    scrubber2,       \* the Scrubber of a second run over the same file
    output2,         \* the lines written by the second run
    dryRun,          \* ProcessFile's dryRun parameter
    overwriteAction, \* ProcessFile's overwriteAction parameter
    files,           \* per path of the file system, what the run did to it
    finalOutputPath, \* ProcessFile local
    result,          \* what runScrubbing returns: "running", "ok" or "error"
    call,            \* the last call on the identity table
    prev             \* the Scrubber as that call found it

vars == <<scrubber, pc, lineCount, processedCount, emptyCount, failedCount,
          input, before, masked, output, scrubber2, output2,
          dryRun, overwriteAction, files, finalOutputPath, result, call, prev>>

\* the parameters and the file system of the run
io == <<dryRun, overwriteAction, files, finalOutputPath, result>>

\* the record of the last call on the identity table
table == <<call, prev>>

-----------------------------------------------------------------------------
(* Bounds of the model *)

MaxLines == 3
MaxPolicyLines == 2
MaxAuditLines == 3
MaxUIDLen == 31

(* Program constants *)

ScrubLevelLow == 1
ScrubLevelMedium == 2
ScrubLevelHigh == 3
MinUIDLength == 20
UIDTargetLength == 26
UIDKeepChars == 8

-----------------------------------------------------------------------------
(* Strings *)

Digits == <<"0", "1", "2", "3", "4", "5", "6", "7", "8", "9">>

UpperCase == <<"A", "B", "C", "D", "E", "F", "G", "H", "I", "J", "K", "L", "M",
               "N", "O", "P", "Q", "R", "S", "T", "U", "V", "W", "X", "Y", "Z">>

LowerCase == <<"a", "b", "c", "d", "e", "f", "g", "h", "i", "j", "k", "l", "m",
               "n", "o", "p", "q", "r", "s", "t", "u", "v", "w", "x", "y", "z">>

Range(q) == {q[i] : i \in DOMAIN q}

DigitSet == Range(Digits)
UpperSet == Range(UpperCase)
LowerSet == Range(LowerCase)

\* the lower-case letter of every upper-case letter
LowerOf == [c \in UpperSet |-> LowerCase[CHOOSE i \in 1..Len(UpperCase) : UpperCase[i] = c]]

ToLowerChar(c) == IF c \in UpperSet THEN LowerOf[c] ELSE c

\* strings.ToLower
ToLower(str) == [i \in 1..Len(str) |-> ToLowerChar(str[i])]

\* strings.Repeat(c, n)
Repeat(c, n) == [i \in 1..n |-> c]

\* fmt.Sprintf("%d", n) for n >= 0
RECURSIVE Itoa(_)
Itoa(n) ==
    IF n < 10 THEN <<Digits[n + 1]>>
    ELSE Itoa(n \div 10) \o <<Digits[(n % 10) + 1]>>

\* strings.Split(str, sep) for a one-character separator
RECURSIVE Split(_, _)
Split(str, sep) ==
    IF \A i \in 1..Len(str) : str[i] # sep
    THEN <<str>>
    ELSE LET k == CHOOSE i \in 1..Len(str) :
                      str[i] = sep /\ \A j \in 1..(i - 1) : str[j] # sep
         IN <<SubSeq(str, 1, k - 1)>> \o Split(SubSeq(str, k + 1, Len(str)), sep)

AllIn(str, set) == \A i \in 1..Len(str) : str[i] \in set

Has(m, k) == k \in DOMAIN m

Put(m, k, v) == (k :> v) @@ m

-----------------------------------------------------------------------------
(* Value classifier: the regular expressions, on whole field values *)

EmailLocalChars == LowerSet \cup UpperSet \cup DigitSet \cup {".", "_", "%", "+", "-"}
EmailDomainChars == LowerSet \cup UpperSet \cup DigitSet \cup {".", "-"}

\* emailRegex: [a-zA-Z0-9._%+-]+@[a-zA-Z0-9.-]+\.[a-zA-Z]{2,}
IsEmailMatch(v) ==
    LET at == Split(v, "@") IN
    /\ Len(at) = 2
    /\ Len(at[1]) >= 1
    /\ AllIn(at[1], EmailLocalChars)
    /\ AllIn(at[2], EmailDomainChars)
    /\ LET labels == Split(at[2], ".") IN
       /\ Len(labels) >= 2
       /\ Len(labels[Len(labels)]) >= 2
       /\ AllIn(labels[Len(labels)], LowerSet \cup UpperSet)
       /\ Len(at[2]) - Len(labels[Len(labels)]) - 1 >= 1

\* ipRegex: \b(?:[0-9]{1,3}\.){3}[0-9]{1,3}\b
IsIPMatch(v) ==
    LET groups == Split(v, ".") IN
    /\ Len(groups) = 4
    /\ \A i \in 1..4 : Len(groups[i]) \in 1..3 /\ AllIn(groups[i], DigitSet)

\* uidRegex: \b[a-z0-9]{MinUIDLength,}\b
IsUIDMatch(v) ==
    /\ Len(v) >= MinUIDLength
    /\ AllIn(v, LowerSet \cup DigitSet)

\* usernameRegex: "(?:user|username)"\s*:\s*"([^"]+)"
IsUsernameMatch(f) ==
    /\ f.key \in {"user", "username"}
    /\ f.quoted
    /\ Len(f.val) >= 1
    /\ "\"" \notin Range(f.val)

\* a JSON number as encoding/json accepts it, digits only
IsJSONNumber(v) ==
    /\ Len(v) >= 1
    /\ AllIn(v, DigitSet)
    /\ (Len(v) > 1 => v[1] # "0")

\* json.Unmarshal succeeds on the text
ParsesAsJSON(line) ==
    /\ line.json
    /\ \A i \in 1..Len(line.fields) :
           line.fields[i].quoted \/ IsJSONNumber(line.fields[i].val)

-----------------------------------------------------------------------------
(* Level policy (levels.go) *)

Star == "*"
MaskedGroup == <<"*", "*", "*">>

\* strings.Join(parts, ".")
RECURSIVE JoinDot(_)
JoinDot(parts) ==
    IF Len(parts) = 0 THEN <<>>
    ELSE IF Len(parts) = 1 THEN parts[1]
    ELSE parts[1] \o <<".">> \o JoinDot(Tail(parts))

\* a level policy that keeps the first group at the medium level
scrubIPByLevel_KeepsFirstGroup(level, ip) ==
    IF Len(Split(ip, ".")) # 4 THEN ip
    ELSE IF level = ScrubLevelMedium
         THEN Split(ip, ".")[1] \o <<".">>
                  \o JoinDot(<<MaskedGroup, MaskedGroup, MaskedGroup>>)
    ELSE IF level = ScrubLevelHigh
         THEN JoinDot(<<MaskedGroup, MaskedGroup, MaskedGroup, MaskedGroup>>)
    ELSE ip

scrubIPByLevel(level, ip) ==
    LET parts == Split(ip, ".") IN
    IF Len(parts) # 4 THEN ip
    ELSE IF level = ScrubLevelMedium
         THEN JoinDot(<<MaskedGroup, MaskedGroup, MaskedGroup>>) \o <<".">> \o parts[4]
    ELSE IF level = ScrubLevelHigh
         THEN JoinDot(<<MaskedGroup, MaskedGroup, MaskedGroup, MaskedGroup>>)
    ELSE ip

\* a level policy that keeps four trailing characters of the identifier
scrubUIDByLevel_KeepsFour(level, uid) ==
    IF level # ScrubLevelHigh THEN uid
    ELSE Repeat(Star, UIDTargetLength - 4) \o SubSeq(uid, Len(uid) - 3, Len(uid))

\* a level policy that writes one "*" per character it removes
scrubUIDByLevel_NoPadding(level, uid) ==
    IF level # ScrubLevelHigh THEN uid
    ELSE IF Len(uid) < UIDKeepChars THEN Repeat(Star, Len(uid))
    ELSE Repeat(Star, Len(uid) - UIDKeepChars)
             \o SubSeq(uid, Len(uid) - UIDKeepChars + 1, Len(uid))

scrubUIDByLevel(level, uid) ==
    IF level # ScrubLevelHigh THEN uid
    ELSE IF Len(uid) < UIDKeepChars THEN Repeat(Star, Len(uid))
    ELSE LET lastChars == SubSeq(uid, Len(uid) - UIDKeepChars + 1, Len(uid))
             target == UIDTargetLength - UIDKeepChars
             maskedLength == IF target < 0 THEN Len(uid) - UIDKeepChars ELSE target
         IN Repeat(Star, maskedLength) \o lastChars

-----------------------------------------------------------------------------
(* The Scrubber session *)

TypeEmail == "email"
TypeUsername == "username"
TypeIP == "ip"
TypeUID == "uid"

\* filepath.Base(inputPath)
SourceName == "mattermost.log"

\* constants.DefaultDomain
DefaultDomain == <<"e", "x", "a", "m", "p", "l", "e", ".", "c", "o", "m">>

EmptyMap == <<>>

NewScrubber(level) ==
    [level            |-> level,
     emailMap         |-> EmptyMap,
     userMap          |-> EmptyMap,
     ipMap            |-> EmptyMap,
     uidMap           |-> EmptyMap,
     userMappings     |-> EmptyMap,   \* key -> address of a UserMapping in heap
     heap             |-> <<>>,       \* the UserMapping records allocated so far
     userCounter      |-> 0,
     auditEntries     |-> EmptyMap,
     domainMap        |-> EmptyMap,
     domainCounter    |-> 0,
     jsonSuccessCount |-> 0,
     jsonFailureCount |-> 0]

\* fmt.Sprintf("user%d", id)
SprintfUser(id) == <<"u", "s", "e", "r">> \o Itoa(id)

\* fmt.Sprintf("user%d@%s", id, domain)
SprintfUserAt(id, domain) == SprintfUser(id) \o <<"@">> \o domain

\* fmt.Sprintf("domain%d.%s", n, suffix)
SprintfDomain(n, suffix) ==
    <<"d", "o", "m", "a", "i", "n">> \o Itoa(n) \o <<".">> \o suffix

\* an audit table keyed by the original folded to lower case
trackReplacement_Folded(s, original, newValue, valueType) ==
    IF Has(s.auditEntries, ToLower(original))
    THEN [s EXCEPT !.auditEntries[ToLower(original)].TimesReplaced = @ + 1]
    ELSE [s EXCEPT !.auditEntries =
              Put(@, ToLower(original), [OriginalValue |-> original,
                                         NewValue      |-> newValue,
                                         TimesReplaced |-> 1,
                                         Type          |-> valueType,
                                         Source        |-> SourceName])]

trackReplacement(s, original, newValue, valueType) ==
    IF Has(s.auditEntries, original)
    THEN [s EXCEPT !.auditEntries[original].TimesReplaced = @ + 1]
    ELSE [s EXCEPT !.auditEntries =
              Put(@, original, [OriginalValue |-> original,
                                NewValue      |-> newValue,
                                TimesReplaced |-> 1,
                                Type          |-> valueType,
                                Source        |-> SourceName])]

\* a processLogLine that does not tally the line it could not parse
trackJSONFailure_Untallied(s) == s

trackJSONFailure(s) == [s EXCEPT !.jsonFailureCount = @ + 1]

\* the part of getMappedDomain after the domain has been extracted
mapDomain(s, originalDomain) ==
    IF Has(s.domainMap, originalDomain)
    THEN [s |-> s, out |-> s.domainMap[originalDomain]]
    ELSE LET n == s.domainCounter + 1
             mappedDomain == SprintfDomain(n, DefaultDomain)
         IN [s   |-> [s EXCEPT !.domainCounter = n,
                               !.domainMap = Put(@, originalDomain, mappedDomain)],
             out |-> mappedDomain]

\* a getMappedDomain that keys the domain map by the domain as spelled
getMappedDomain_AsSpelled(s, email) ==
    IF Len(Split(email, "@")) # 2 THEN [s |-> s, out |-> DefaultDomain]
    ELSE mapDomain(s, Split(email, "@")[2])

getMappedDomain(s, email) ==
    IF Len(Split(email, "@")) # 2 THEN [s |-> s, out |-> DefaultDomain]
    ELSE mapDomain(s, ToLower(Split(email, "@")[2]))

\* a createUserMapping that links an email to a known username without
\* entering the email in the table
createUserMapping_EmailNotEntered(s, username, email) ==
    IF Has(s.userMappings, ToLower(username))
    THEN IF s.heap[s.userMappings[ToLower(username)]].Email = <<>>
         THEN [s EXCEPT !.heap[s.userMappings[ToLower(username)]].Email = email]
         ELSE s
    ELSE IF Has(s.userMappings, ToLower(email))
    THEN IF s.heap[s.userMappings[ToLower(email)]].Username = <<>>
         THEN [s EXCEPT !.heap[s.userMappings[ToLower(email)]].Username = username,
                        !.userMappings = Put(@, ToLower(username),
                                             s.userMappings[ToLower(email)])]
         ELSE s
    ELSE [s EXCEPT !.userCounter = @ + 1,
                   !.heap = Append(@, [Username |-> username,
                                       Email    |-> email,
                                       MappedID |-> s.userCounter + 1]),
                   !.userMappings = Put(Put(@, ToLower(username), Len(s.heap) + 1),
                                        ToLower(email), Len(s.heap) + 1)]

\* a createUserMapping that enters a new pair under its username only
createUserMapping_NewPairUnderUsername(s, username, email) ==
    IF Has(s.userMappings, ToLower(username))
    THEN IF s.heap[s.userMappings[ToLower(username)]].Email = <<>>
         THEN [s EXCEPT !.heap[s.userMappings[ToLower(username)]].Email = email,
                        !.userMappings = Put(@, ToLower(email),
                                             s.userMappings[ToLower(username)])]
         ELSE s
    ELSE IF Has(s.userMappings, ToLower(email))
    THEN IF s.heap[s.userMappings[ToLower(email)]].Username = <<>>
         THEN [s EXCEPT !.heap[s.userMappings[ToLower(email)]].Username = username,
                        !.userMappings = Put(@, ToLower(username),
                                             s.userMappings[ToLower(email)])]
         ELSE s
    ELSE [s EXCEPT !.userCounter = @ + 1,
                   !.heap = Append(@, [Username |-> username,
                                       Email    |-> email,
                                       MappedID |-> s.userCounter + 1]),
                   !.userMappings = Put(@, ToLower(username), Len(s.heap) + 1)]

\* a createUserMapping that takes a new ordinal when it links an email
createUserMapping_CountsLinks(s, username, email) ==
    LET usernameLower == ToLower(username)
        emailLower == ToLower(email)
    IN
    IF Has(s.userMappings, usernameLower)
    THEN LET mapping == s.userMappings[usernameLower] IN
         IF s.heap[mapping].Email = <<>>
         THEN [s EXCEPT !.userCounter = @ + 1,
                        !.heap[mapping].Email = email,
                        !.userMappings = Put(@, emailLower, mapping)]
         ELSE s
    ELSE IF Has(s.userMappings, emailLower)
    THEN LET mapping == s.userMappings[emailLower] IN
         IF s.heap[mapping].Username = <<>>
         THEN [s EXCEPT !.heap[mapping].Username = username,
                        !.userMappings = Put(@, usernameLower, mapping)]
         ELSE s
    ELSE LET n == s.userCounter + 1
             mapping == Len(s.heap) + 1
         IN [s EXCEPT !.userCounter = n,
                      !.heap = Append(@, [Username |-> username,
                                          Email    |-> email,
                                          MappedID |-> n]),
                      !.userMappings = Put(Put(@, usernameLower, mapping),
                                           emailLower, mapping)]

\* a createUserMapping that takes a new ordinal for a record with each call
\* that finds the username linked already
createUserMapping_Renumbers(s, username, email) ==
    LET usernameLower == ToLower(username)
        emailLower == ToLower(email)
    IN
    IF Has(s.userMappings, usernameLower)
    THEN LET mapping == s.userMappings[usernameLower] IN
         IF s.heap[mapping].Email = <<>>
         THEN [s EXCEPT !.heap[mapping].Email = email,
                        !.userMappings = Put(@, emailLower, mapping)]
         ELSE [s EXCEPT !.userCounter = @ + 1,
                        !.heap[mapping].MappedID = s.userCounter + 1]
    ELSE IF Has(s.userMappings, emailLower)
    THEN LET mapping == s.userMappings[emailLower] IN
         IF s.heap[mapping].Username = <<>>
         THEN [s EXCEPT !.heap[mapping].Username = username,
                        !.userMappings = Put(@, usernameLower, mapping)]
         ELSE s
    ELSE LET n == s.userCounter + 1
             mapping == Len(s.heap) + 1
         IN [s EXCEPT !.userCounter = n,
                      !.heap = Append(@, [Username |-> username,
                                          Email    |-> email,
                                          MappedID |-> n]),
                      !.userMappings = Put(Put(@, usernameLower, mapping),
                                           emailLower, mapping)]

createUserMapping(s, username, email) ==
    LET usernameLower == ToLower(username)
        emailLower == ToLower(email)
    IN
    IF Has(s.userMappings, usernameLower)
    THEN LET mapping == s.userMappings[usernameLower] IN
         IF s.heap[mapping].Email = <<>>
         THEN [s EXCEPT !.heap[mapping].Email = email,
                        !.userMappings = Put(@, emailLower, mapping)]
         ELSE s
    ELSE IF Has(s.userMappings, emailLower)
    THEN LET mapping == s.userMappings[emailLower] IN
         IF s.heap[mapping].Username = <<>>
         THEN [s EXCEPT !.heap[mapping].Username = username,
                        !.userMappings = Put(@, usernameLower, mapping)]
         ELSE s
    ELSE LET n == s.userCounter + 1
             mapping == Len(s.heap) + 1
         IN [s EXCEPT !.userCounter = n,
                      !.heap = Append(@, [Username |-> username,
                                          Email    |-> email,
                                          MappedID |-> n]),
                      !.userMappings = Put(Put(@, usernameLower, mapping),
                                           emailLower, mapping)]

\* a getUserMappedName that numbers a new record by the count of the keys
getUserMappedName_ByKeys(s, username) ==
    IF Has(s.userMappings, ToLower(username))
    THEN [s |-> s, out |-> SprintfUser(s.heap[s.userMappings[ToLower(username)]].MappedID)]
    ELSE [s   |-> [s EXCEPT !.userCounter = Cardinality(DOMAIN s.userMappings) + 1,
                            !.heap = Append(@, [Username |-> username,
                                                Email    |-> <<>>,
                                                MappedID |->
                                                    Cardinality(DOMAIN s.userMappings) + 1]),
                            !.userMappings = Put(@, ToLower(username), Len(s.heap) + 1)],
          out |-> SprintfUser(Cardinality(DOMAIN s.userMappings) + 1)]

getUserMappedName(s, username) ==
    IF Has(s.userMappings, ToLower(username))
    THEN [s |-> s, out |-> SprintfUser(s.heap[s.userMappings[ToLower(username)]].MappedID)]
    ELSE [s   |-> [s EXCEPT !.userCounter = @ + 1,
                            !.heap = Append(@, [Username |-> username,
                                                Email    |-> <<>>,
                                                MappedID |-> s.userCounter + 1]),
                            !.userMappings = Put(@, ToLower(username), Len(s.heap) + 1)],
          out |-> SprintfUser(s.userCounter + 1)]

\* fmt.Sprintf("user%d@%s", id, s.getMappedDomain(email)); d is what
\* getMappedDomain returned
renderEmail(id, d) == [s |-> d.s, out |-> SprintfUserAt(id, d.out)]

\* the standalone branch of getUserMappedEmail up to the return
newEmailMapping(s, email) ==
    [s EXCEPT !.userCounter = @ + 1,
              !.heap = Append(@, [Username |-> <<>>,
                                  Email    |-> email,
                                  MappedID |-> s.userCounter + 1]),
              !.userMappings = Put(@, ToLower(email), Len(s.heap) + 1)]

getUserMappedEmail(s, email) ==
    IF Has(s.userMappings, ToLower(email))
    THEN renderEmail(s.heap[s.userMappings[ToLower(email)]].MappedID,
                     getMappedDomain(s, email))
    ELSE renderEmail(s.userCounter + 1,
                     getMappedDomain(newEmailMapping(s, email), email))

-----------------------------------------------------------------------------
(* The masking passes.  Each pass is regexp.ReplaceAllStringFunc over the  *)
(* text: the callback runs on every match from left to right and the       *)
(* session it mutates is threaded through.                                 *)

\* a cache hit in a callback: count the replacement, return the cached text
cached(s, original, scrubbed, valueType) ==
    [s |-> trackReplacement(s, original, scrubbed, valueType), out |-> scrubbed]

\* the end of the callback of scrubEmails; r is what getUserMappedEmail returned
storeEmail(r, email) ==
    [s   |-> trackReplacement([r.s EXCEPT !.emailMap = Put(@, ToLower(email), r.out)],
                              email, r.out, TypeEmail),
     out |-> r.out]

\* a callback of scrubEmails that asks the identity table every time
scrubEmailsFunc_NoCache(s, email) == storeEmail(getUserMappedEmail(s, email), email)

\* the callback of scrubEmails
scrubEmailsFunc(s, email) ==
    IF Has(s.emailMap, ToLower(email))
    THEN cached(s, email, s.emailMap[ToLower(email)], TypeEmail)
    ELSE storeEmail(getUserMappedEmail(s, email), email)

\* the text with match i replaced by what the callback returned
replaced(text, i, r) == [text EXCEPT ![i].val = r.out]

RECURSIVE scrubEmailsFrom(_, _, _)
scrubEmailsAfter(r, text, i) == scrubEmailsFrom(r.s, replaced(text, i, r), i + 1)

scrubEmailsFrom(s, text, i) ==
    IF i > Len(text) THEN [s |-> s, text |-> text]
    ELSE IF ~IsEmailMatch(text[i].val) THEN scrubEmailsFrom(s, text, i + 1)
    ELSE scrubEmailsAfter(scrubEmailsFunc(s, text[i].val), text, i)

scrubEmails(s, text) == scrubEmailsFrom(s, text, 1)

\* the end of the callback of scrubUsernames; r is what getUserMappedName returned
storeUsername(r, username) ==
    [s   |-> trackReplacement([r.s EXCEPT !.userMap = Put(@, ToLower(username), r.out)],
                              username, r.out, TypeUsername),
     out |-> r.out]

\* the callback of scrubUsernames; the match is split on the three
\* characters quote-colon-quote, so a match with white space around the
\* colon has one part and is returned as it is
scrubUsernamesFunc(s, f) ==
    IF ~f.tight THEN [s |-> s, out |-> f.val]
    ELSE IF Has(s.userMap, ToLower(f.val))
    THEN cached(s, f.val, s.userMap[ToLower(f.val)], TypeUsername)
    ELSE storeUsername(getUserMappedName(s, f.val), f.val)

RECURSIVE scrubUsernamesFrom(_, _, _)
scrubUsernamesAfter(r, text, i) == scrubUsernamesFrom(r.s, replaced(text, i, r), i + 1)

scrubUsernamesFrom(s, text, i) ==
    IF i > Len(text) THEN [s |-> s, text |-> text]
    ELSE IF ~IsUsernameMatch(text[i]) THEN scrubUsernamesFrom(s, text, i + 1)
    ELSE scrubUsernamesAfter(scrubUsernamesFunc(s, text[i]), text, i)

scrubUsernames(s, text) == scrubUsernamesFrom(s, text, 1)

\* the end of the callback of scrubIPAddresses
storeIP(s, ip, scrubbed) ==
    [s   |-> trackReplacement([s EXCEPT !.ipMap = Put(@, ip, scrubbed)],
                              ip, scrubbed, TypeIP),
     out |-> scrubbed]

\* the callback of scrubIPAddresses
scrubIPAddressesFunc(s, ip) ==
    IF Has(s.ipMap, ip)
    THEN cached(s, ip, s.ipMap[ip], TypeIP)
    ELSE storeIP(s, ip, scrubIPByLevel(s.level, ip))

RECURSIVE scrubIPAddressesFrom(_, _, _)
scrubIPAddressesAfter(r, text, i) ==
    scrubIPAddressesFrom(r.s, replaced(text, i, r), i + 1)

scrubIPAddressesFrom(s, text, i) ==
    IF i > Len(text) THEN [s |-> s, text |-> text]
    ELSE IF ~IsIPMatch(text[i].val) THEN scrubIPAddressesFrom(s, text, i + 1)
    ELSE scrubIPAddressesAfter(scrubIPAddressesFunc(s, text[i].val), text, i)

scrubIPAddresses(s, text) == scrubIPAddressesFrom(s, text, 1)

\* the end of the callback of scrubUIDs
storeUID(s, uid, scrubbed) ==
    [s   |-> trackReplacement([s EXCEPT !.uidMap = Put(@, uid, scrubbed)],
                              uid, scrubbed, TypeUID),
     out |-> scrubbed]

\* the callback of scrubUIDs
scrubUIDsFunc(s, uid) ==
    IF Len(uid) < MinUIDLength THEN [s |-> s, out |-> uid]
    ELSE IF Has(s.uidMap, uid)
    THEN cached(s, uid, s.uidMap[uid], TypeUID)
    ELSE storeUID(s, uid, scrubUIDByLevel(s.level, uid))

RECURSIVE scrubUIDsFrom(_, _, _)
scrubUIDsAfter(r, text, i) == scrubUIDsFrom(r.s, replaced(text, i, r), i + 1)

scrubUIDsFrom(s, text, i) ==
    IF i > Len(text) THEN [s |-> s, text |-> text]
    ELSE IF ~IsUIDMatch(text[i].val) THEN scrubUIDsFrom(s, text, i + 1)
    ELSE scrubUIDsAfter(scrubUIDsFunc(s, text[i].val), text, i)

scrubUIDs(s, text) == scrubUIDsFrom(s, text, 1)

\* the steps of scrubJSONString and scrubPlainText after the first; r is the
\* session and the text as the pass before left them
\* a username pass that runs from level 2 only
usernamesStep_FromLevel2(r) ==
    IF r.s.level >= 2 THEN scrubUsernames(r.s, r.text) ELSE r

usernamesStep(r) == scrubUsernames(r.s, r.text)
ipStep(r) == IF r.s.level >= 2 THEN scrubIPAddresses(r.s, r.text) ELSE r
uidStep(r) == IF r.s.level = 3 THEN scrubUIDs(r.s, r.text) ELSE r

scrubJSONString(s, jsonStr) == uidStep(ipStep(usernamesStep(scrubEmails(s, jsonStr))))

scrubPlainText(s, text) == uidStep(ipStep(usernamesStep(scrubEmails(s, text))))

-----------------------------------------------------------------------------
(* Link detection over the parsed line.  Object 0 is the top-level object;  *)
(* objects 1, 2, ... are nested objects that are members of object 0.       *)

Members(fields, k) == {i \in 1..Len(fields) : fields[i].obj = k}

HasKey(fields, k, key) == \E i \in Members(fields, k) : fields[i].key = key

\* v[key].(string): the value when it is a string, "" when it is not
StringOf(fields, k, key) ==
    LET i == CHOOSE j \in Members(fields, k) : fields[j].key = key IN
    IF fields[i].quoted THEN fields[i].val ELSE <<>>

ObjUsername(fields, k) ==
    IF HasKey(fields, k, "user") THEN StringOf(fields, k, "user")
    ELSE IF HasKey(fields, k, "username") THEN StringOf(fields, k, "username")
    ELSE <<>>

ObjEmail(fields, k) ==
    IF HasKey(fields, k, "email") THEN StringOf(fields, k, "email") ELSE <<>>

NestedObjects(fields) == {fields[i].obj : i \in 1..Len(fields)} \ {0}

\* the orders in which `for _, value := range v` may deliver the members
Orders(fields) ==
    LET objs == NestedObjects(fields)
        n == Cardinality(objs)
    IN {o \in [1..n -> objs] : \A a \in objs : \E i \in 1..n : o[i] = a}

\* the body of the map case for one object
visitObject(s, fields, k) ==
    LET username == ObjUsername(fields, k)
        email == ObjEmail(fields, k)
    IN IF username # <<>> /\ email # <<>>
       THEN createUserMapping(s, username, email)
       ELSE s

RECURSIVE visitMembers(_, _, _, _)
visitMembers(s, fields, order, i) ==
    IF i > Len(order) THEN s
    ELSE visitMembers(visitObject(s, fields, order[i]), fields, order, i + 1)

findUserMappingsRecursive(s, fields, order) ==
    visitMembers(visitObject(s, fields, 0), fields, order, 1)

\* a link detection that looks at the top-level object only
detectAndMapUser_TopLevelOnly(s, fields, order) == visitObject(s, fields, 0)

detectAndMapUser(s, fields, order) == findUserMappingsRecursive(s, fields, order)

-----------------------------------------------------------------------------
(* The line processor *)

\* the text of the line with the passes' result in it
textOf(line, r) == [line EXCEPT !.fields = r.text]

\* the plain-text return of processLogLine
plainResult(line, r) ==
    [s |-> r.s, out |-> textOf(line, r), scrubbed |-> textOf(line, r), err |-> FALSE]

\* a processLogLine that returns the masked text without validating it
validated_Unchecked(line, r) ==
    [s |-> r.s, out |-> textOf(line, r), scrubbed |-> textOf(line, r), err |-> FALSE]

\* the validation that ends processLogLine; r is what scrubJSONString returned
validated(line, r) ==
    IF ~ParsesAsJSON(textOf(line, r))
    THEN [s |-> r.s, out |-> line, scrubbed |-> textOf(line, r), err |-> FALSE]
    ELSE [s |-> r.s, out |-> textOf(line, r), scrubbed |-> textOf(line, r),
          err |-> FALSE]

processLogLine(s, line, order) ==
    IF ~ParsesAsJSON(line)
    THEN plainResult(line, scrubPlainText(trackJSONFailure(s), line.fields))
    ELSE validated(line,
             scrubJSONString(
                 detectAndMapUser([s EXCEPT !.jsonSuccessCount = @ + 1],
                                  line.fields, order),
                 line.fields))

-----------------------------------------------------------------------------
(* The input lines the model draws from *)

Field(key, val, quoted, obj) ==
    [key |-> key, val |-> val, quoted |-> quoted, obj |-> obj, tight |-> TRUE]

JSONLine(fields) == [json |-> TRUE, fields |-> fields]
PlainLine(fields) == [json |-> FALSE, fields |-> fields]

\* the user and email members of object k ("" for a member that is absent)
ObjectFields(k, username, email) ==
    (IF username # <<>> THEN <<Field("user", username, TRUE, k)>> ELSE <<>>)
    \o (IF email # <<>> THEN <<Field("email", email, TRUE, k)>> ELSE <<>>)

UserAl == <<"a", "l">>
UserAL == <<"A", "l">>
UserBo == <<"b", "o">>
EmailAl == <<"a", "l", "@", "x", ".", "i", "o">>
EmailAL == <<"A", "l", "@", "X", ".", "i", "o">>
EmailBo == <<"b", "o", "@", "y", ".", "i", "o">>
EmailCy == <<"c", "y", "@", "X", ".", "i", "o">>

\* the usernames and emails that occur alone on a line
Users == {UserAl}
Emails == {EmailAl}

Pairs == {<<UserAl, EmailAl>>, <<UserAL, EmailAL>>, <<UserBo, EmailBo>>,
          <<UserBo, EmailAl>>}

\* two sibling nested objects, each pairing a username with an email
SiblingLines ==
    {JSONLine(ObjectFields(1, p[1], p[2]) \o ObjectFields(2, q[1], q[2])) :
        <<p, q>> \in {<<<<UserAl, EmailAl>>, <<UserBo, EmailBo>>>>,
                      <<<<UserBo, EmailAl>>, <<UserAl, EmailAl>>>>}}

IdentityLines ==
    {JSONLine(ObjectFields(0, u, <<>>)) : u \in Users}
    \cup {JSONLine(ObjectFields(0, <<>>, e)) : e \in Emails}
    \cup {JSONLine(ObjectFields(0, p[1], p[2])) : p \in Pairs}
    \cup SiblingLines

UIDAlphabet == <<"a", "b", "c", "d", "e", "f", "1", "2", "3", "4", "5", "6",
                 "7", "8", "9", "0">>

\* an identifier of n lowercase alphanumeric characters
UIDOf(n) == [i \in 1..n |-> UIDAlphabet[((i - 1) % Len(UIDAlphabet)) + 1]]

\* an identifier of n digits that is also a JSON number
DigitsOf(n) == [i \in 1..n |-> Digits[(i % 10) + 1]]

IPOf(a, b, c, d) == JoinDot(<<a, b, c, d>>)

IPGroups == {<<"1">>, <<"1", "0">>, <<"9", "9", "9">>}

SampleIP == IPOf(<<"1", "0">>, <<"0">>, <<"0">>, <<"1">>)
SampleUID == UIDOf(UIDTargetLength + 4)
SampleNumber == DigitsOf(MinUIDLength)

OtherLines ==
    {JSONLine(ObjectFields(0, UserBo, EmailBo)
              \o <<Field("id", SampleNumber, FALSE, 0)>>),
     JSONLine(<<Field("ip", SampleIP, TRUE, 0), Field("id", SampleUID, TRUE, 0)>>),
     PlainLine(<<Field("text", EmailCy, FALSE, 0), Field("text", SampleIP, FALSE, 0)>>)}

Lines == IdentityLines \cup OtherLines

\* the lines of the level-policy runs: one token each
PolicyTokens ==
    {IPOf(a, <<"0">>, <<"0">>, d) : a \in IPGroups, d \in IPGroups}
    \cup {IPOf(<<"9", "9", "9">>, <<"9", "9", "9">>, <<"9", "9", "9">>, <<"9", "9", "9">>),
          JoinDot(<<<<"1">>, <<"2">>, <<"3">>>>),
          IPOf(<<"1", "2", "3", "4">>, <<"0">>, <<"0">>, <<"1">>)}
    \cup {UIDOf(n) : n \in (MinUIDLength - 2)..MaxUIDLen}

PolicyLines ==
    {JSONLine(<<Field("v", tok, TRUE, 0)>>) : tok \in PolicyTokens}
    \cup {JSONLine(<<Field("v", SampleNumber, FALSE, 0)>>)}

\* the lines of the whole-run model: an object that pairs a username with an
\* email, a line cut short before its closing brace, and the line whose
\* masked text is no longer JSON at level 3
TruncatedLine ==
    PlainLine(ObjectFields(0, UserBo, EmailBo)
              \o <<Field("ip", SampleIP, TRUE, 0), Field("id", SampleUID, TRUE, 0)>>)

RunLines ==
    {JSONLine(ObjectFields(0, UserAl, EmailAl)),
     TruncatedLine,
     JSONLine(ObjectFields(0, UserBo, EmailBo)
              \o <<Field("id", SampleNumber, FALSE, 0)>>)}

\* the lines of the audit runs: one identity in two spellings, one string
\* that is a username on one line and an IP address on another, and the line
\* whose masked text is no longer JSON at level 3
AuditLines ==
    {JSONLine(ObjectFields(0, UserAl, EmailAl)),
     JSONLine(ObjectFields(0, UserAL, EmailAL)),
     JSONLine(ObjectFields(0, SampleIP, <<>>)),
     JSONLine(<<Field("ip", SampleIP, TRUE, 0), Field("id", SampleUID, TRUE, 0)>>),
     JSONLine(ObjectFields(0, UserBo, EmailBo)
              \o <<Field("id", SampleNumber, FALSE, 0)>>)}

\* the lines of the runs that compare two levels
LevelLines ==
    {JSONLine(ObjectFields(0, UserAl, EmailAl)),
     JSONLine(ObjectFields(1, UserAl, EmailAl) \o ObjectFields(2, UserBo, EmailBo)),
     TruncatedLine}
    \cup OtherLines

\* the field written with white space around its colon
Spaced(f) == [f EXCEPT !.tight = FALSE]

\* the lines of the runs that exercise link detection and the passes: an
\* object whose user member is a number beside a username and an email; a
\* username written with a space after the colon; an email as the value of
\* user; a username at top level before a nested pair; a plain pair; and the
\* line whose masked text is no longer JSON at level 3
PassLines ==
    {JSONLine(<<Field("user", <<"5">>, FALSE, 0), Field("username", UserAl, TRUE, 0),
                Field("email", EmailAl, TRUE, 0)>>),
     JSONLine(<<Spaced(Field("user", UserAl, TRUE, 0))>>),
     JSONLine(ObjectFields(0, EmailAl, <<>>)),
     JSONLine(ObjectFields(0, UserBo, <<>>) \o ObjectFields(1, UserAl, EmailAl)),
     JSONLine(ObjectFields(0, UserAl, EmailAl)),
     JSONLine(ObjectFields(0, UserBo, EmailBo)
              \o <<Field("id", SampleNumber, FALSE, 0)>>)}

Levels == {ScrubLevelLow, ScrubLevelMedium, ScrubLevelHigh}

-----------------------------------------------------------------------------
(* Calls on the identity table *)

NoCall == [op |-> "none", username |-> <<>>, email |-> <<>>]

\* the usernames and emails the calls are made with
TableUsers == {UserAl, UserAL, UserBo}
TableEmails == {EmailAl, EmailBo}

-----------------------------------------------------------------------------
(* The target files and the handling of a file that already exists *)

OverwritePrompt == "prompt"
OverwriteOverwrite == "overwrite"
OverwriteTimestamp == "timestamp"
OverwriteCancel == "cancel"

OverwriteActions ==
    {OverwritePrompt, OverwriteOverwrite, OverwriteTimestamp, OverwriteCancel}

OutputPath == "scrubbed.log"
AuditPath == "audit.csv"
NoPath == ""

\* the path with the time of day inserted before its extension
generateTimestampSuffix(path) ==
    IF path = OutputPath THEN "scrubbed_time.log" ELSE "audit_time.csv"

Paths ==
    {OutputPath, AuditPath,
     generateTimestampSuffix(OutputPath), generateTimestampSuffix(AuditPath)}

\* a file is "absent", "old" (there before the run and untouched since),
\* "truncated" (there before the run and opened anew by it) or "created"
NoFiles == [path \in Paths |-> "absent"]

checkFileExists(fs, path) == fs[path] # "absent"

osCreate(fs, path) ==
    [fs EXCEPT ![path] = IF @ = "absent" THEN "created" ELSE "truncated"]

\* what the user may answer at the prompt
promptUserChoice == {"overwrite", "cancel", "rename"}

\* the choices handleFileConflict may return
handleFileConflict(action) ==
    IF action = OverwriteOverwrite THEN {"overwrite"}
    ELSE IF action = OverwriteTimestamp THEN {"rename"}
    ELSE IF action = OverwriteCancel THEN {"cancel"}
    ELSE promptUserChoice

\* the path ProcessFile and WriteAuditFile go on to create, NoPath when the
\* operation is cancelled
targetPath(fs, path, choice) ==
    IF ~checkFileExists(fs, path) THEN path
    ELSE IF choice = "cancel" THEN NoPath
    ELSE IF choice = "rename" THEN generateTimestampSuffix(path)
    ELSE path

-----------------------------------------------------------------------------
(* ProcessFile *)

Init ==
    /\ \E level \in Levels :
           /\ scrubber = NewScrubber(level)
           /\ scrubber2 = NewScrubber(level)
    /\ pc = "loop"
    /\ lineCount = 0
    /\ processedCount = 0
    /\ emptyCount = 0
    /\ failedCount = 0
    /\ input = <<>>
    /\ before = <<>>
    /\ masked = <<>>
    /\ output = <<>>
    /\ output2 = <<>>
    /\ dryRun = FALSE
    /\ overwriteAction = OverwriteOverwrite
    /\ files = osCreate(NoFiles, OutputPath)
    /\ finalOutputPath = OutputPath
    /\ result = "running"
    /\ call = NoCall
    /\ prev = scrubber

\* a loop that counts a blank line as processed as well
ReadBlank_Processed ==
    /\ pc = "loop"
    /\ lineCount < MaxLines
    /\ lineCount' = lineCount + 1
    /\ emptyCount' = emptyCount + 1
    /\ processedCount' = processedCount + 1
    /\ UNCHANGED <<scrubber, pc, failedCount, input, before, masked,
                   output, scrubber2, output2>>
    /\ UNCHANGED <<io, table>>

\* one turn of the scanner loop on a blank line
ReadBlank ==
    /\ pc = "loop"
    /\ lineCount < MaxLines
    /\ lineCount' = lineCount + 1
    /\ emptyCount' = emptyCount + 1
    /\ UNCHANGED <<scrubber, pc, processedCount, failedCount, input, before, masked,
                   output, scrubber2, output2>>
    /\ UNCHANGED <<io, table>>

\* a loop body that puts the line in front of the lines written before
written_InFront(line, r) ==
    /\ lineCount' = lineCount + 1
    /\ scrubber' = r.s
    /\ failedCount' = IF r.err THEN failedCount + 1 ELSE failedCount
    /\ processedCount' = processedCount + 1
    /\ input' = Append(input, line)
    /\ before' = Append(before, scrubber)
    /\ masked' = Append(masked, r.scrubbed)
    /\ output' = IF dryRun THEN output
                 ELSE <<IF r.err THEN line ELSE r.out>> \o output
    /\ UNCHANGED <<pc, emptyCount>>
    /\ UNCHANGED <<io, table>>

\* the rest of the loop body once processLogLine has returned r
written(line, r) ==
    /\ lineCount' = lineCount + 1
    /\ scrubber' = r.s
    /\ failedCount' = IF r.err THEN failedCount + 1 ELSE failedCount
    /\ processedCount' = processedCount + 1
    /\ input' = Append(input, line)
    /\ before' = Append(before, scrubber)
    /\ masked' = Append(masked, r.scrubbed)
    /\ output' = IF dryRun THEN output
                 ELSE Append(output, IF r.err THEN line ELSE r.out)
    /\ UNCHANGED <<pc, emptyCount>>
    /\ UNCHANGED <<io, table>>

\* one turn of the scanner loop on a non-blank line: processLogLine, the
\* counters, the write
Scan(line, order) ==
    /\ pc = "loop"
    /\ written(line, processLogLine(scrubber, line, order))

ReadLine ==
    \E line \in Lines : \E order \in Orders(line.fields) :
        /\ lineCount < MaxLines
        /\ Scan(line, order)
        /\ UNCHANGED <<scrubber2, output2>>

\* the scanner reaches the end of the file
EndOfFile ==
    /\ pc = "loop"
    /\ pc' = "done"
    /\ UNCHANGED <<scrubber, lineCount, processedCount, emptyCount, failedCount,
                   input, before, masked, output, scrubber2, output2>>
    /\ UNCHANGED <<io, table>>

Next == ReadBlank \/ ReadLine \/ EndOfFile

Spec == Init /\ [][Next]_vars

\* two runs of ProcessFile over the same file, each with its own Scrubber
\* and its own order of visiting the members of every object
written2(line, r2) ==
    /\ scrubber2' = r2.s
    /\ output2' = Append(output2, IF r2.err THEN line ELSE r2.out)

ReadLineTwice ==
    \E line \in Lines : \E order \in Orders(line.fields) :
        \E order2 \in Orders(line.fields) :
            /\ lineCount < MaxLines
            /\ Scan(line, order)
            /\ written2(line, processLogLine(scrubber2, line, order2))

NextTwoRuns == ReadBlank \/ ReadLineTwice \/ EndOfFile

SpecTwoRuns == Init /\ [][NextTwoRuns]_vars

\* runs over lines that carry one IP-shaped or identifier-shaped token
ReadPolicyLine ==
    \E line \in PolicyLines :
        /\ lineCount < MaxPolicyLines
        /\ Scan(line, <<>>)
        /\ UNCHANGED <<scrubber2, output2>>

NextPolicy == ReadPolicyLine \/ EndOfFile

SpecPolicy == Init /\ [][NextPolicy]_vars

\* runs over the lines that exercise the audit table
ReadAuditLine ==
    \E line \in AuditLines : \E order \in Orders(line.fields) :
        /\ lineCount < MaxAuditLines
        /\ Scan(line, order)
        /\ UNCHANGED <<scrubber2, output2>>

NextAudit == ReadAuditLine \/ EndOfFile

SpecAudit == Init /\ [][NextAudit]_vars

\* two runs over the same file at two levels, the first at the higher one;
\* both visit the members of every object in the same order
InitLevels ==
    /\ \E level \in Levels : \E level2 \in Levels :
           /\ level > level2
           /\ scrubber = NewScrubber(level)
           /\ scrubber2 = NewScrubber(level2)
    /\ pc = "loop"
    /\ lineCount = 0
    /\ processedCount = 0
    /\ emptyCount = 0
    /\ failedCount = 0
    /\ input = <<>>
    /\ before = <<>>
    /\ masked = <<>>
    /\ output = <<>>
    /\ output2 = <<>>
    /\ dryRun = FALSE
    /\ overwriteAction = OverwriteOverwrite
    /\ files = osCreate(NoFiles, OutputPath)
    /\ finalOutputPath = OutputPath
    /\ result = "running"
    /\ call = NoCall
    /\ prev = scrubber

ReadLevelLine ==
    \E line \in LevelLines : \E order \in Orders(line.fields) :
        /\ lineCount < MaxLines
        /\ Scan(line, order)
        /\ written2(line, processLogLine(scrubber2, line, order))

NextLevels == ReadBlank \/ ReadLevelLine \/ EndOfFile

SpecLevels == InitLevels /\ [][NextLevels]_vars

\* runs over the lines that exercise link detection and the passes
ReadPassLine ==
    \E line \in PassLines : \E order \in Orders(line.fields) :
        /\ lineCount < MaxLines
        /\ Scan(line, order)
        /\ UNCHANGED <<scrubber2, output2>>

NextPasses == ReadBlank \/ ReadPassLine \/ EndOfFile

SpecPasses == Init /\ [][NextPasses]_vars

-----------------------------------------------------------------------------
(* The identity table under any sequence of calls of createUserMapping,     *)
(* getUserMappedName and getUserMappedEmail                                 *)

InitTable ==
    /\ scrubber = NewScrubber(ScrubLevelLow)
    /\ scrubber2 = NewScrubber(ScrubLevelLow)
    /\ pc = "loop"
    /\ lineCount = 0
    /\ processedCount = 0
    /\ emptyCount = 0
    /\ failedCount = 0
    /\ input = <<>>
    /\ before = <<>>
    /\ masked = <<>>
    /\ output = <<>>
    /\ output2 = <<>>
    /\ dryRun = FALSE
    /\ overwriteAction = OverwriteOverwrite
    /\ files = osCreate(NoFiles, OutputPath)
    /\ finalOutputPath = OutputPath
    /\ result = "running"
    /\ call = NoCall
    /\ prev = scrubber

\* the call c has returned and left the Scrubber s
called(c, s) ==
    /\ scrubber' = s
    /\ prev' = scrubber
    /\ call' = c
    /\ UNCHANGED <<pc, lineCount, processedCount, emptyCount, failedCount, input,
                   before, masked, output, scrubber2, output2, io>>

CallCreate ==
    \E username \in TableUsers : \E email \in TableEmails :
        called([op |-> "createUserMapping", username |-> username, email |-> email],
               createUserMapping(scrubber, username, email))

CallName ==
    \E username \in TableUsers :
        called([op |-> "getUserMappedName", username |-> username, email |-> <<>>],
               getUserMappedName(scrubber, username).s)

CallEmail ==
    \E email \in TableEmails :
        called([op |-> "getUserMappedEmail", username |-> <<>>, email |-> email],
               getUserMappedEmail(scrubber, email).s)

NextTable == CallCreate \/ CallName \/ CallEmail

SpecTable == InitTable /\ [][NextTable]_vars

-----------------------------------------------------------------------------
(* runScrubbing: ProcessFile from its first statement, then writeOutput *)

InitRun ==
    /\ \E level \in Levels :
           /\ scrubber = NewScrubber(level)
           /\ scrubber2 = NewScrubber(level)
    /\ pc = "start"
    /\ lineCount = 0
    /\ processedCount = 0
    /\ emptyCount = 0
    /\ failedCount = 0
    /\ input = <<>>
    /\ before = <<>>
    /\ masked = <<>>
    /\ output = <<>>
    /\ output2 = <<>>
    /\ dryRun \in BOOLEAN
    /\ overwriteAction \in OverwriteActions
    /\ \E present \in SUBSET {OutputPath, AuditPath} :
           files = [path \in Paths |-> IF path \in present THEN "old" ELSE "absent"]
    /\ finalOutputPath = OutputPath
    /\ result = "running"
    /\ call = NoCall
    /\ prev = scrubber

\* ProcessFile up to the scanner loop: the output file is opened unless the
\* run is a dry run
opened(target) ==
    IF target = NoPath
    THEN /\ pc' = "end"
         /\ result' = "cancel"
         /\ UNCHANGED <<files, finalOutputPath>>
    ELSE /\ pc' = "loop"
         /\ files' = osCreate(files, target)
         /\ finalOutputPath' = target
         /\ UNCHANGED result

\* a ProcessFile that opens the output file in a dry run as well
OpenOutput_OnDryRun ==
    /\ pc = "start"
    /\ \E choice \in handleFileConflict(overwriteAction) :
           opened(targetPath(files, OutputPath, choice))
    /\ UNCHANGED <<scrubber, lineCount, processedCount, emptyCount, failedCount,
                   input, before, masked, output, scrubber2, output2,
                   dryRun, overwriteAction, call, prev>>

OpenOutput ==
    /\ pc = "start"
    /\ IF dryRun
       THEN /\ pc' = "loop"
            /\ UNCHANGED <<files, finalOutputPath, result>>
       ELSE \E choice \in handleFileConflict(overwriteAction) :
                opened(targetPath(files, OutputPath, choice))
    /\ UNCHANGED <<scrubber, lineCount, processedCount, emptyCount, failedCount,
                   input, before, masked, output, scrubber2, output2,
                   dryRun, overwriteAction, call, prev>>

\* one turn of the scanner loop on a non-blank line; the second Scrubber
\* follows a run that writes its lines, visiting the members in the same order
ReadRunLine ==
    \E line \in RunLines : \E order \in Orders(line.fields) :
        /\ lineCount < MaxLines
        /\ Scan(line, order)
        /\ written2(line, processLogLine(scrubber2, line, order))

\* the rest of the loop body when the write of the line fails: ProcessFile
\* returns the error and runScrubbing returns it in turn
aborted_Continues(line, r) ==
    /\ lineCount' = lineCount + 1
    /\ scrubber' = r.s
    /\ failedCount' = IF r.err THEN failedCount + 1 ELSE failedCount
    /\ processedCount' = processedCount + 1
    /\ input' = Append(input, line)
    /\ before' = Append(before, scrubber)
    /\ masked' = Append(masked, r.scrubbed)
    /\ result' = "write"
    /\ UNCHANGED <<pc, emptyCount, output, scrubber2, output2,
                   dryRun, overwriteAction, files, finalOutputPath, call, prev>>

aborted(line, r) ==
    /\ lineCount' = lineCount + 1
    /\ scrubber' = r.s
    /\ failedCount' = IF r.err THEN failedCount + 1 ELSE failedCount
    /\ processedCount' = processedCount + 1
    /\ input' = Append(input, line)
    /\ before' = Append(before, scrubber)
    /\ masked' = Append(masked, r.scrubbed)
    /\ pc' = "end"
    /\ result' = "write"
    /\ UNCHANGED <<emptyCount, output, scrubber2, output2,
                   dryRun, overwriteAction, files, finalOutputPath, call, prev>>

WriteFails ==
    \E line \in RunLines : \E order \in Orders(line.fields) :
        /\ pc = "loop"
        /\ ~dryRun
        /\ lineCount < MaxLines
        /\ aborted(line, processLogLine(scrubber, line, order))

\* writeOutput: the audit file is written unless the run is a dry run
audited(target) ==
    IF target = NoPath
    THEN /\ result' = "cancel"
         /\ UNCHANGED files
    ELSE /\ result' = "ok"
         /\ files' = osCreate(files, target)

WriteOutput ==
    /\ pc = "done"
    /\ pc' = "end"
    /\ IF dryRun
       THEN /\ result' = "ok"
            /\ UNCHANGED files
       ELSE \E choice \in handleFileConflict(overwriteAction) :
                audited(targetPath(files, AuditPath, choice))
    /\ UNCHANGED <<scrubber, lineCount, processedCount, emptyCount, failedCount,
                   input, before, masked, output, scrubber2, output2,
                   dryRun, overwriteAction, finalOutputPath, call, prev>>

NextRun ==
    OpenOutput \/ ReadBlank \/ ReadRunLine \/ WriteFails \/ EndOfFile \/ WriteOutput

SpecRun == InitRun /\ [][NextRun]_vars

-----------------------------------------------------------------------------
(* Reading the histories: an occurrence is a field of a delivered line.     *)

Occurrences ==
    {o \in (1..Len(input)) \X (1..4) : o[2] <= Len(input[o[1]].fields)}

InVal(o) == input[o[1]].fields[o[2]].val
OutVal(o) == output[o[1]].fields[o[2]].val
MaskedVal(o) == masked[o[1]].fields[o[2]].val

\* the occurrence was replaced in the line that was written
Replaced(o) == OutVal(o) # InVal(o)

UsernameOccurrence(o) == IsUsernameMatch(input[o[1]].fields[o[2]])
EmailOccurrence(o) == IsEmailMatch(InVal(o))

SameIgnoringCase(a, b) ==
    /\ Len(a) = Len(b)
    /\ \A i \in 1..Len(a) : ToLowerChar(a[i]) = ToLowerChar(b[i])

\* the rendered email carries the ordinal of the rendered username
SameOrdinal(name, email) ==
    /\ Len(email) > Len(name)
    /\ SubSeq(email, 1, Len(name) + 1) = name \o <<"@">>

\* the ordinal of the identity the table resolves a username or email to
TableOrdinal(s, key) == s.heap[s.userMappings[ToLower(key)]].MappedID

\* the line has an object that pairs a username with an email
PairObjects(fields) ==
    {k \in {0} \cup NestedObjects(fields) :
        ObjUsername(fields, k) # <<>> /\ ObjEmail(fields, k) # <<>>}

-----------------------------------------------------------------------------
(* Stable identity *)

-----------------------------------------------------------------------------
(* Determinism *)

\* C2: two fresh sessions at the same level, fed the same lines in the same
\* order, write identical lines and hold identical audit tables, in whatever
\* order each of them visits the members of the objects of a line.
C2_Determinism ==
    /\ output2 = output
    /\ scrubber2.auditEntries = scrubber.auditEntries

-----------------------------------------------------------------------------
(* Pairing and linking *)

JSONLines == {i \in 1..Len(input) : ParsesAsJSON(input[i])}

\* from line i on, every replaced occurrence of username u and every
\* replaced occurrence of email e carry one ordinal
AgreeFrom(i, u, e) ==
    LET usernames == {o \in Occurrences :
                         /\ o[1] >= i /\ Replaced(o) /\ UsernameOccurrence(o)
                         /\ SameIgnoringCase(InVal(o), u)}
        emails == {o \in Occurrences :
                      /\ o[1] >= i /\ Replaced(o) /\ EmailOccurrence(o)
                      /\ SameIgnoringCase(InVal(o), e)}
    IN \A o1 \in usernames : \A o2 \in emails :
           SameOrdinal(OutVal(o1), OutVal(o2))

NoRival(fields, k) ==
    \A k2 \in PairObjects(fields) :
        SameIgnoringCase(ObjUsername(fields, k2), ObjUsername(fields, k))
        <=> SameIgnoringCase(ObjEmail(fields, k2), ObjEmail(fields, k))

Known(s, key) == Has(s.userMappings, ToLower(key))

\* when the line arrives the session can still give u and e one ordinal:
\* neither has an identity, or one has an identity that lacks the
\* counterpart, or both are already rendered with one ordinal
Linkable(s, u, e) ==
    \/ ~Known(s, u) /\ ~Known(s, e)
    \/ /\ Known(s, u) /\ ~Known(s, e)
       /\ s.heap[s.userMappings[ToLower(u)]].Email = <<>>
    \/ /\ ~Known(s, u) /\ Known(s, e)
       /\ s.heap[s.userMappings[ToLower(e)]].Username = <<>>
    \/ /\ Has(s.userMap, ToLower(u)) /\ Has(s.emailMap, ToLower(e))
       /\ SameOrdinal(s.userMap[ToLower(u)], s.emailMap[ToLower(e)])

Unseen(i, v) ==
    \A o \in Occurrences : o[1] < i => ~SameIgnoringCase(InVal(o), v)

-----------------------------------------------------------------------------
(* Domain aliasing *)

\* the text after the "@" of an email
DomainPart(v) ==
    LET at == CHOOSE j \in 1..Len(v) : v[j] = "@" IN SubSeq(v, at + 1, Len(v))

\* the values of all fields of the delivered lines, in reading order
RECURSIVE ValuesFrom(_, _)
ValuesFrom(i, p) ==
    IF i > Len(input) THEN <<>>
    ELSE IF p > Len(input[i].fields) THEN ValuesFrom(i + 1, 1)
    ELSE <<input[i].fields[p].val>> \o ValuesFrom(i, p + 1)

\* the distinct lower-cased domains of the emails among the values, in the
\* order of their first sighting
RECURSIVE DomainsSighted(_, _)
DomainsSighted(vals, acc) ==
    IF vals = <<>> THEN acc
    ELSE IF IsEmailMatch(vals[1])
            /\ ToLower(DomainPart(vals[1])) \notin Range(acc)
         THEN DomainsSighted(Tail(vals), Append(acc, ToLower(DomainPart(vals[1]))))
    ELSE DomainsSighted(Tail(vals), acc)

AliasNumbered(k) ==
    <<"d", "o", "m", "a", "i", "n">> \o Itoa(k)
        \o <<".", "e", "x", "a", "m", "p", "l", "e", ".", "c", "o", "m">>

\* C5: the domain map is a function of the lower-cased domain and is
\* injective; the k-th distinct domain sighted is aliased domain<k>, with no
\* gaps, whatever the user ordinals are; every replaced email carries the
\* alias of its lower-cased domain.
C5_DomainAliasing ==
    /\ LET sighted == DomainsSighted(ValuesFrom(1, 1), <<>>) IN
       /\ DOMAIN scrubber.domainMap = Range(sighted)
       /\ scrubber.domainCounter = Len(sighted)
       /\ \A k \in 1..Len(sighted) :
              scrubber.domainMap[sighted[k]] = AliasNumbered(k)
    /\ \A d1 \in DOMAIN scrubber.domainMap : \A d2 \in DOMAIN scrubber.domainMap :
           scrubber.domainMap[d1] = scrubber.domainMap[d2] => d1 = d2
    /\ \A o \in Occurrences :
           (EmailOccurrence(o) /\ Replaced(o))
           => DomainPart(OutVal(o)) = scrubber.domainMap[ToLower(DomainPart(InVal(o)))]

\* two emails of different users whose domains differ in spelling only share
\* an alias, a second domain is aliased domain2, and the alias number of a
\* replaced email differs from its user ordinal
C5_Witness ==
    /\ scrubber.domainCounter = 2
    /\ \E o1 \in Occurrences : \E o2 \in Occurrences :
           /\ EmailOccurrence(o1) /\ EmailOccurrence(o2)
           /\ Replaced(o1) /\ Replaced(o2)
           /\ DomainPart(InVal(o1)) # DomainPart(InVal(o2))
           /\ ~SameIgnoringCase(InVal(o1), InVal(o2))
           /\ SameIgnoringCase(DomainPart(InVal(o1)), DomainPart(InVal(o2)))
           /\ DomainPart(OutVal(o1)) = DomainPart(OutVal(o2))
           /\ OutVal(o1) # OutVal(o2)
    /\ \E o \in Occurrences :
           /\ EmailOccurrence(o) /\ Replaced(o)
           /\ OutVal(o) = SprintfUser(2) \o <<"@">> \o AliasNumbered(1)

-----------------------------------------------------------------------------
(* The level policy, read on the text the masking passes return *)

IPOccurrence(o) == IsIPMatch(InVal(o))
UIDOccurrence(o) == IsUIDMatch(InVal(o))

AuditTypes == {scrubber.auditEntries[k].Type : k \in DOMAIN scrubber.auditEntries}

\* the text after the last "." of an IP-shaped token
LastGroup(v) ==
    LET dot == CHOOSE j \in 1..Len(v) :
                   v[j] = "." /\ \A m \in (j + 1)..Len(v) : v[m] # "."
    IN SubSeq(v, dot + 1, Len(v))

ThreeMaskedGroups ==
    <<"*", "*", "*", ".", "*", "*", "*", ".", "*", "*", "*", ".">>

\* C6: at level 1 an IPv4-shaped token is left as it is and the audit table
\* gets no entry of type ip; at level 2 it becomes ***.***.***.<fourth group>;
\* at level 3 it becomes ***.***.***.***; the groups are not validated.
C6_IPPolicy ==
    /\ scrubber.level = 1 => "ip" \notin AuditTypes
    /\ \A o \in Occurrences :
           IPOccurrence(o)
           => /\ scrubber.level = 1 => MaskedVal(o) = InVal(o)
              /\ scrubber.level = 2
                     => MaskedVal(o) = ThreeMaskedGroups \o LastGroup(InVal(o))
              /\ scrubber.level = 3
                     => MaskedVal(o) = ThreeMaskedGroups \o <<"*", "*", "*">>

\* 999.999.999.999 has been masked at level 2
C6_Witness ==
    /\ scrubber.level = 2
    /\ \E o \in Occurrences :
           /\ InVal(o) = <<"9", "9", "9", ".", "9", "9", "9", ".",
                           "9", "9", "9", ".", "9", "9", "9">>
           /\ MaskedVal(o) = ThreeMaskedGroups \o <<"9", "9", "9">>
           /\ OutVal(o) = MaskedVal(o)
           /\ "ip" \in AuditTypes

Stars(v) == {j \in 1..Len(v) : v[j] = "*"}

\* C7: at level 3 an identifier of 20 or more lowercase alphanumerics
\* becomes exactly 26 characters, "*" followed by the last 8 characters of
\* the identifier; at levels 1 and 2 it is left as it is and the audit table
\* gets no entry of type uid.
C7_UIDMasking ==
    /\ scrubber.level \in {1, 2} => "uid" \notin AuditTypes
    /\ \A o \in Occurrences :
           UIDOccurrence(o)
           => /\ scrubber.level \in {1, 2} => MaskedVal(o) = InVal(o)
              /\ scrubber.level = 3
                     => /\ Len(MaskedVal(o)) = 26
                        /\ Stars(MaskedVal(o)) = 1..18
                        /\ SubSeq(MaskedVal(o), 19, 26)
                               = SubSeq(InVal(o), Len(InVal(o)) - 7, Len(InVal(o)))

\* an identifier longer than 26 characters has been masked at level 3
C7_Witness ==
    /\ scrubber.level = 3
    /\ \E o \in Occurrences :
           /\ UIDOccurrence(o)
           /\ Len(InVal(o)) > 26
           /\ Len(MaskedVal(o)) = 26
           /\ OutVal(o) = MaskedVal(o)
           /\ "uid" \in AuditTypes

\* C8 as stated: the masked form of an identifier is never longer than the
\* identifier, identifiers of 20, 21, ... characters included.
C8_NeverLonger ==
    \A o \in Occurrences :
        UIDOccurrence(o) => Len(MaskedVal(o)) <= Len(InVal(o))

\* C8 (amended): at level 3 the mask always writes 18 "*", so the masked
\* form is 26 characters whatever the identifier's length; it is not longer
\* than the identifier exactly when the identifier has 26 or more
\* characters, and for 20 to 25 characters it is longer.
C8_LongerBelowTarget ==
    \A o \in Occurrences :
        (UIDOccurrence(o) /\ scrubber.level = 3)
        => /\ Cardinality(Stars(MaskedVal(o))) = 18
           /\ Len(MaskedVal(o)) <= Len(InVal(o)) <=> Len(InVal(o)) >= 26
           /\ Len(InVal(o)) < 26 => Len(MaskedVal(o)) = 26

\* an identifier of 20 characters has been masked at level 3 into 26
C8_Witness ==
    /\ scrubber.level = 3
    /\ \E o \in Occurrences :
           /\ UIDOccurrence(o)
           /\ Len(InVal(o)) = 20
           /\ Len(MaskedVal(o)) = 26
           /\ OutVal(o) = MaskedVal(o)

-----------------------------------------------------------------------------
(* JSON safety *)

StartsWithUser(v) == Len(v) > 4 /\ SubSeq(v, 1, 4) = <<"u", "s", "e", "r">>

\* field p of line i as the passes applicable at the level leave it
MaskedAsLevel(i, p) ==
    LET f == input[i].fields[p]
        m == masked[i].fields[p].val
    IN IF IsEmailMatch(f.val) \/ IsUsernameMatch(f)
       THEN m # f.val /\ StartsWithUser(m)
       ELSE IF IsIPMatch(f.val)
       THEN IF scrubber.level >= 2
            THEN SubSeq(m, 1, 12) = ThreeMaskedGroups
            ELSE m = f.val
       ELSE IF IsUIDMatch(f.val)
       THEN IF scrubber.level = 3
            THEN Len(m) = 26 /\ Stars(m) = 1..18
            ELSE m = f.val
       ELSE m = f.val

\* the lines whose masked text does not parse as JSON any more
Corrupted == {i \in JSONLines : ~ParsesAsJSON(masked[i])}

\* C9: for every input line that parses as JSON, the written line parses as
\* JSON; it is the text all passes applicable at the level produced when that
\* text parses, and the input line, unmodified, when it does not; no line is
\* written partly masked.
C9_JSONSafety ==
    \A i \in JSONLines :
        /\ ParsesAsJSON(output[i])
        /\ \A p \in 1..Len(input[i].fields) : MaskedAsLevel(i, p)
        /\ Len(masked[i].fields) = Len(input[i].fields)
        /\ i \in Corrupted => output[i] = input[i]
        /\ i \notin Corrupted => output[i] = masked[i]

\* one line was written as masked and another, whose masked text does not
\* parse, was written as it came
C9_Witness ==
    \E i \in Corrupted : \E j \in JSONLines \ Corrupted :
        /\ output[i] = input[i]
        /\ masked[i] # input[i]
        /\ output[j] = masked[j]
        /\ masked[j] # input[j]

\* C10: a JSON line whose masked text fails re-validation is written as it
\* came, adds one to the failed-line count of ProcessFile, and the loop goes
\* on with the next line.
C10_FailureTallied ==
    /\ \A i \in Corrupted : output[i] = input[i]
    /\ failedCount = Cardinality(Corrupted)
    /\ Len(output) = processedCount

-----------------------------------------------------------------------------
(* The audit table *)

\* the masking passes replaced the occurrence
Substituted(o) == MaskedVal(o) # InVal(o)

Substitutions == {o \in Occurrences : Substituted(o)}

\* C11: for every string s, the audit entry keyed by s in its exact spelling
\* exists when the passes replaced an occurrence of exactly s, and its
\* TimesReplaced is the number of such replacements over all lines; two
\* originals that differ only in letter case have an entry each, both with
\* the replacement of the one identity.
C11_AuditCounter ==
    LET audit == scrubber.auditEntries
        subs == Substitutions
    IN /\ DOMAIN audit = {InVal(o) : o \in subs}
       /\ \A s \in DOMAIN audit :
              /\ audit[s].OriginalValue = s
              /\ audit[s].TimesReplaced = Cardinality({o \in subs : InVal(o) = s})
       /\ \A s1 \in DOMAIN audit : \A s2 \in DOMAIN audit :
              SameIgnoringCase(s1, s2) => audit[s1].NewValue = audit[s2].NewValue

\* the run is over, one spelling was replaced twice and another spelling of
\* the same email once
C11_Witness ==
    /\ pc = "done"
    /\ Has(scrubber.auditEntries, EmailAl)
    /\ Has(scrubber.auditEntries, EmailAL)
    /\ scrubber.auditEntries[EmailAl].TimesReplaced = 2
    /\ scrubber.auditEntries[EmailAL].TimesReplaced = 1

\* the kind of the pass that replaces the occurrence: the email pass runs
\* first, then the username pass, the IP pass and the UID pass
KindOf(o) ==
    IF EmailOccurrence(o) THEN TypeEmail
    ELSE IF UsernameOccurrence(o) THEN TypeUsername
    ELSE IF IPOccurrence(o) THEN TypeIP
    ELSE TypeUID

\* C12: for every substitution the passes performed, the audit entry of its
\* original records the replacement string and the kind of that very
\* substitution, so that no entry counts a substitution with another
\* replacement or of another kind.
C12_AuditFidelity ==
    \A o \in Substitutions :
        /\ Has(scrubber.auditEntries, InVal(o))
        /\ scrubber.auditEntries[InVal(o)].NewValue = MaskedVal(o)
        /\ scrubber.auditEntries[InVal(o)].Type = KindOf(o)

-----------------------------------------------------------------------------
(* The output file *)

\* what processLogLine returns for delivered line i, in some order of
\* visiting the members of its objects
ResultsOf(i) ==
    {processLogLine(before[i], input[i], order).out :
        order \in Orders(input[i].fields)}

\* C13: in a run that is not a dry run and in which no write fails, the
\* output holds one line per non-blank input line and its i-th line is what
\* processLogLine returned for the i-th non-blank input line: nothing is
\* reordered, written twice or lost.
C13_OutputOrder ==
    (~dryRun /\ result # "write") =>
        /\ Len(output) = Len(input)
        /\ Len(input) = processedCount
        /\ \A i \in 1..Len(input) : output[i] \in ResultsOf(i)

\* a finished run with a blank line between two lines that are written
\* differently
C13_Witness ==
    /\ ~dryRun
    /\ pc = "end"
    /\ result = "ok"
    /\ emptyCount = 1
    /\ Len(output) = 2
    /\ output[1] # output[2]
    /\ output[1] # input[1]

-----------------------------------------------------------------------------
(* Blank lines and the counters *)

\* the step counts a line as empty
CountsEmpty == emptyCount' # emptyCount

\* C14: the step that counts a line as empty counts it in the total and as
\* empty and does nothing else: the Scrubber (identity table, caches, audit
\* table), the processed and failed counts, the output and the files stay as
\* they are; and while no write has failed the total is the processed count
\* plus the empty count and the failed count is at most the processed count.
C14_BlankLines ==
    /\ [](result # "write" =>
              /\ lineCount = processedCount + emptyCount
              /\ failedCount <= processedCount)
    /\ [][CountsEmpty =>
              /\ emptyCount' = emptyCount + 1
              /\ lineCount' = lineCount + 1
              /\ UNCHANGED <<scrubber, processedCount, failedCount, input,
                             masked, output, files, result>>]_vars

\* a finished run that skipped a blank line between two processed lines
C14_Witness ==
    /\ pc = "end"
    /\ result = "ok"
    /\ emptyCount = 1
    /\ processedCount = 2
    /\ lineCount = 3
    /\ scrubber.auditEntries # EmptyMap

-----------------------------------------------------------------------------
(* Lines that are not JSON *)

PlainLines == {i \in 1..Len(input) : ~ParsesAsJSON(input[i])}

\* the username and the email of line i were rendered with different ordinals
Unlinked(i) ==
    \A o1 \in Occurrences : \A o2 \in Occurrences :
        (/\ o1[1] = i /\ o2[1] = i
         /\ UsernameOccurrence(o1) /\ EmailOccurrence(o2))
        => ~SameOrdinal(MaskedVal(o1), MaskedVal(o2))

\* C15: a non-blank line that does not parse as a JSON object is never
\* counted as failed; it adds one to jsonFailureCount; no link is made from
\* it (a username and an email on it that have no identity yet are rendered
\* with different ordinals); every field is masked by the passes of the
\* level, as on a JSON line, and the line is written as masked; and
\* jsonSuccessCount + jsonFailureCount is the processed count.
C15_PlainTextRouting ==
    /\ failedCount = 0
    /\ scrubber.jsonFailureCount = Cardinality(PlainLines)
    /\ scrubber.jsonSuccessCount + scrubber.jsonFailureCount = processedCount
    /\ \A i \in PlainLines :
           /\ \A p \in 1..Len(input[i].fields) : MaskedAsLevel(i, p)
           /\ i <= Len(output) => output[i] = masked[i]
           /\ (/\ ~Known(before[i], ObjUsername(input[i].fields, 0))
               /\ ~Known(before[i], ObjEmail(input[i].fields, 0)))
              => Unlinked(i)

\* a line that is not JSON came first with a username and an email, was
\* masked and written, and a JSON line followed
C15_Witness ==
    /\ pc = "end"
    /\ 1 \in PlainLines
    /\ 2 \in JSONLines
    /\ ObjUsername(input[1].fields, 0) # <<>>
    /\ ObjEmail(input[1].fields, 0) # <<>>
    /\ Len(output) = 2
    /\ output[1] # input[1]
    /\ scrubber.jsonFailureCount = 1

-----------------------------------------------------------------------------
(* Level independence *)

OutVal2(o) == output2[o[1]].fields[o[2]].val

\* what a session holds about identities and domains
IdentityOf(s) ==
    [userMappings  |-> s.userMappings,
     heap          |-> s.heap,
     userCounter   |-> s.userCounter,
     domainMap     |-> s.domainMap,
     domainCounter |-> s.domainCounter,
     emailMap      |-> s.emailMap,
     userMap       |-> s.userMap]

\* the occurrence is a token of the IP pass or of the UID pass
LevelToken(o) ==
    /\ ~EmailOccurrence(o)
    /\ ~UsernameOccurrence(o)
    /\ IPOccurrence(o) \/ UIDOccurrence(o)

-----------------------------------------------------------------------------
(* The target files *)

\* the file was there when the run started
Existed(path) == files[path] \in {"old", "truncated"}

\* the run has created or truncated the file
Touched(path) == files[path] \in {"created", "truncated"}

\* C17: when the output file or the audit file exists at the start of a run
\* (not a dry run) with OverwriteAction = cancel, the run ends with an error
\* and no file, neither the scrubbed output nor the audit file, is ever
\* created, truncated or written.
C17_CancelTouchesNothing ==
    (/\ overwriteAction = OverwriteCancel
     /\ ~dryRun
     /\ Existed(OutputPath) \/ Existed(AuditPath))
    => /\ \A path \in Paths : ~Touched(path)
       /\ output = <<>>
       /\ pc = "end" => result # "ok"

\* C18: when the write of an output line fails, ProcessFile returns the
\* error in that very turn of the loop and the run takes no further step: no
\* later line is processed or written, the lines written before stay in the
\* output file, and no audit file is created.
C18_WriteErrorFatal ==
    /\ [](result = "write" =>
              /\ pc = "end"
              /\ Touched(finalOutputPath)
              /\ Len(output) = Len(input) - 1
              /\ processedCount = Len(input)
              /\ \A i \in 1..Len(output) : output[i] \in ResultsOf(i)
              /\ ~Touched(AuditPath)
              /\ ~Touched(generateTimestampSuffix(AuditPath)))
    /\ [][result # "write"]_vars

\* the write of the third line fails; two lines are in the output file and
\* the audit file that was there is as it was
C18_Witness ==
    /\ result = "write"
    /\ Len(input) = 3
    /\ Len(output) = 2
    /\ output[1] # input[1]
    /\ files[AuditPath] = "old"
    /\ scrubber.auditEntries # EmptyMap

\* C19: in a dry run no file is created, truncated or written at any point
\* and the run does not fail, while every non-blank line is processed and
\* counted as in a run that writes: the Scrubber is the Scrubber of such a run
\* over the same lines, the masked texts are the lines that run writes, and
\* the counters are its counters.
C19_DryRun ==
    dryRun =>
        /\ \A path \in Paths : ~Touched(path)
        /\ output = <<>>
        /\ result \in {"running", "ok"}
        /\ scrubber = scrubber2
        /\ processedCount = Len(output2)
        /\ lineCount = processedCount + emptyCount
        /\ \A i \in 1..Len(input) :
               output2[i] = IF i \in Corrupted THEN input[i] ELSE masked[i]

\* a dry run over two lines and a blank line has ended; both target files
\* were there and the overwrite action is cancel
C19_Witness ==
    /\ dryRun
    /\ pc = "end"
    /\ result = "ok"
    /\ overwriteAction = OverwriteCancel
    /\ files[OutputPath] = "old"
    /\ files[AuditPath] = "old"
    /\ processedCount = 2
    /\ emptyCount = 1
    /\ scrubber.auditEntries # EmptyMap

-----------------------------------------------------------------------------
(* The identity table *)

\* the table resolves the key to record r
LooksUp(s, key, r) ==
    /\ Has(s.userMappings, ToLower(key))
    /\ s.userMappings[ToLower(key)] = r

\* C20: in every state, for every UserMapping record that has a Username and
\* an Email, the lookups of the lower-cased username and of the lower-cased
\* email in the identity table both return that record.
C20_LinkedLookup ==
    \A r \in 1..Len(scrubber.heap) :
        (scrubber.heap[r].Username # <<>> /\ scrubber.heap[r].Email # <<>>)
        => /\ LooksUp(scrubber, scrubber.heap[r].Username, r)
           /\ LooksUp(scrubber, scrubber.heap[r].Email, r)

-----------------------------------------------------------------------------
(* createUserMapping as a rule on the identity table *)

\* the records of s2 are the records of s1 but for record r
SameRecordsBut(s1, s2, r) ==
    /\ Len(s2.heap) = Len(s1.heap)
    /\ \A i \in 1..Len(s1.heap) : i # r => s2.heap[i] = s1.heap[i]

\* the keys of s2 are the keys of s1 and the keys in added, which resolve to r
SameKeysBut(s1, s2, added, r) ==
    /\ DOMAIN s2.userMappings = DOMAIN s1.userMappings \cup added
    /\ \A key \in added : s2.userMappings[key] = r
    /\ \A key \in DOMAIN s1.userMappings \ added :
           s2.userMappings[key] = s1.userMappings[key]

\* nothing of the identity table has changed
TableUnchanged(s1, s2) ==
    /\ s2.userMappings = s1.userMappings
    /\ s2.heap = s1.heap
    /\ s2.userCounter = s1.userCounter

\* C21: createUserMapping(u, e), with the keys lower-cased, does exactly one
\* of: (1) when an identity exists under u, it attaches e and registers the
\* identity under e if that identity has no email, and changes nothing
\* otherwise; (2) else when an identity exists under e, it attaches u and
\* registers the identity under u if that identity has no username, and
\* changes nothing otherwise; (3) else it adds one to the counter and
\* registers one new identity that holds both under both keys.  In (1) and
\* (2) the counter stays.
C21_LinkOrCreate ==
    call.op = "createUserMapping" =>
        LET u == ToLower(call.username)
            e == ToLower(call.email)
        IN IF u \in DOMAIN prev.userMappings
           THEN LET r == prev.userMappings[u] IN
                IF prev.heap[r].Email = <<>>
                THEN /\ scrubber.heap[r] = [prev.heap[r] EXCEPT !.Email = call.email]
                     /\ SameRecordsBut(prev, scrubber, r)
                     /\ SameKeysBut(prev, scrubber, {e}, r)
                     /\ scrubber.userCounter = prev.userCounter
                ELSE TableUnchanged(prev, scrubber)
           ELSE IF e \in DOMAIN prev.userMappings
           THEN LET r == prev.userMappings[e] IN
                IF prev.heap[r].Username = <<>>
                THEN /\ scrubber.heap[r] =
                            [prev.heap[r] EXCEPT !.Username = call.username]
                     /\ SameRecordsBut(prev, scrubber, r)
                     /\ SameKeysBut(prev, scrubber, {u}, r)
                     /\ scrubber.userCounter = prev.userCounter
                ELSE TableUnchanged(prev, scrubber)
           ELSE /\ scrubber.userCounter = prev.userCounter + 1
                /\ scrubber.heap =
                       prev.heap \o <<[Username |-> call.username,
                                       Email    |-> call.email,
                                       MappedID |-> prev.userCounter + 1]>>
                /\ SameKeysBut(prev, scrubber, {u, e}, Len(prev.heap) + 1)

\* the call found an identity under the username that had no email and
\* attached the email, which another identity held before
C21_Witness ==
    /\ call.op = "createUserMapping"
    /\ ToLower(call.username) \in DOMAIN prev.userMappings
    /\ prev.heap[prev.userMappings[ToLower(call.username)]].Email = <<>>
    /\ ToLower(call.email) \in DOMAIN prev.userMappings
    /\ scrubber.heap[scrubber.userMappings[ToLower(call.username)]].Email = call.email
    /\ scrubber.userCounter = prev.userCounter

-----------------------------------------------------------------------------
(* Link detection *)

\* the Scrubber as line i left it
After(i) == IF i < Len(input) THEN before[i + 1] ELSE scrubber

\* member key of object k is a string
StringMember(fields, k, key) ==
    \E j \in Members(fields, k) : fields[j].key = key /\ fields[j].quoted

\* the string-valued user of object k, else its string-valued username
StringUsername(fields, k) ==
    IF StringMember(fields, k, "user") THEN StringOf(fields, k, "user")
    ELSE IF StringMember(fields, k, "username") THEN StringOf(fields, k, "username")
    ELSE <<>>

\* the objects with a string-valued email and a string-valued user or username
StringPairs(fields) ==
    {k \in {0} \cup NestedObjects(fields) :
        StringUsername(fields, k) # <<>> /\ ObjEmail(fields, k) # <<>>}

\* C22: on a line that parses as JSON, createUserMapping is called for every
\* object that has a string-valued email member and a string-valued user or
\* username member (user when both are strings); so when such an object is
\* the only one of its line and neither value has an identity yet, both keys
\* resolve to one identity once the line is processed.
C22_DetectionCoverage ==
    \A i \in JSONLines : \A k \in StringPairs(input[i].fields) :
        LET u == StringUsername(input[i].fields, k)
            e == ObjEmail(input[i].fields, k)
        IN (/\ StringPairs(input[i].fields) = {k}
            /\ ~Known(before[i], u)
            /\ ~Known(before[i], e))
           => /\ Known(After(i), u)
              /\ Known(After(i), e)
              /\ After(i).userMappings[ToLower(u)] = After(i).userMappings[ToLower(e)]

\* the masked value of member key of object k of line i
MaskedMember(i, k, key) ==
    masked[i].fields[CHOOSE j \in Members(input[i].fields, k) :
                         input[i].fields[j].key = key].val

\* an object that link detection pairs, whose username and email have no
\* identity when the line arrives and occur in no other pair of the line
NewPairs(i) ==
    {k \in PairObjects(input[i].fields) :
        /\ NoRival(input[i].fields, k)
        /\ ~Known(before[i], ObjUsername(input[i].fields, k))
        /\ ~Known(before[i], ObjEmail(input[i].fields, k))}

\* C23: on a line that parses as JSON, link detection has visited every
\* object of the line before any pass replaces anything or allocates an
\* identity: a username and an email paired in any object of the line, both
\* new, get one identity with one new ordinal, and the line is masked with
\* that ordinal for both, wherever the object stands in the line.
C23_DetectionFirst ==
    \A i \in JSONLines : \A k \in NewPairs(i) :
        LET u == ObjUsername(input[i].fields, k)
            e == ObjEmail(input[i].fields, k)
            r == After(i).userMappings[ToLower(u)]
        IN /\ After(i).userMappings[ToLower(e)] = r
           /\ r > Len(before[i].heap)
           /\ After(i).heap[r].Username = u
           /\ After(i).heap[r].Email = e
           /\ MaskedMember(i, k, "user") = SprintfUser(After(i).heap[r].MappedID)
           /\ SameOrdinal(SprintfUser(After(i).heap[r].MappedID),
                          MaskedMember(i, k, "email"))

\* a line whose top-level object has a username alone and whose nested
\* object pairs a new username with a new email: the pair takes the first
\* ordinal although the other username stands first in the text
C23_Witness ==
    \E i \in JSONLines :
        /\ 1 \in NewPairs(i)
        /\ before[i].userCounter = 0
        /\ ObjUsername(input[i].fields, 0) # <<>>
        /\ ObjEmail(input[i].fields, 0) = <<>>
        /\ input[i].fields[1].obj = 0
        /\ MaskedMember(i, 1, "user") = SprintfUser(1)
        /\ MaskedMember(i, 0, "user") = SprintfUser(2)

-----------------------------------------------------------------------------
(* The username pass *)

\* C24: at every level, every occurrence of a quoted user or username key,
\* a colon with or without white space around it, and a non-empty quoted
\* value (here: a value that is not also an email address) has its value
\* replaced by user<ordinal>, and the audit table has an entry for it.
C24_UsernameCoverage ==
    \A o \in Occurrences :
        (UsernameOccurrence(o) /\ ~EmailOccurrence(o))
        => /\ StartsWithUser(MaskedVal(o))
           /\ AllIn(SubSeq(MaskedVal(o), 5, Len(MaskedVal(o))), DigitSet)
           /\ Has(scrubber.auditEntries, InVal(o))
           /\ scrubber.auditEntries[InVal(o)].Type = TypeUsername

-----------------------------------------------------------------------------
(* The passes on the text the passes before them have rewritten *)

\* the values that occur in the lines delivered so far
InputValues == {InVal(o) : o \in Occurrences}

\* C25: no text that an earlier pass inserted is matched and replaced by a
\* later pass, so the original value of every audit entry occurs in some
\* input line as it is.
C25_NoRewriteOfReplacements ==
    \A original \in DOMAIN scrubber.auditEntries : original \in InputValues

-----------------------------------------------------------------------------
(* Ordinals *)

\* the records carry the ordinals 1..userCounter, one each
OrdinalsInOrder(s) ==
    /\ s.userCounter = Len(s.heap)
    /\ \A r \in 1..Len(s.heap) : s.heap[r].MappedID = r

\* C26: in every state the user counter is the number of UserMapping records
\* created so far and the records carry exactly the ordinals 1..counter, no
\* ordinal twice; every call creates at most one record and then adds exactly
\* one to the counter; the counter never goes down; and the ordinal of a
\* record never changes.
C26_Ordinals ==
    /\ OrdinalsInOrder(scrubber)
    /\ OrdinalsInOrder(prev)
    /\ scrubber.userCounter \in {prev.userCounter, prev.userCounter + 1}
    /\ Len(scrubber.heap) - Len(prev.heap) = scrubber.userCounter - prev.userCounter
    /\ \A r \in 1..Len(prev.heap) : scrubber.heap[r].MappedID = prev.heap[r].MappedID

\* three records exist; the last call created the third after an earlier
\* call had linked an email to a record without taking an ordinal
C26_Witness ==
    /\ scrubber.userCounter = 3
    /\ prev.userCounter = 2
    /\ call.op = "getUserMappedName"
    /\ \E r \in 1..2 : prev.heap[r].Username # <<>> /\ prev.heap[r].Email # <<>>
    /\ Cardinality(DOMAIN prev.userMappings) = 3

\* C27: from every reachable state, createUserMapping(u, e) called a second
\* time right after the first leaves the identity table, the fields of every
\* record and the user counter as the first call left them.
C27_Idempotent ==
    call.op = "createUserMapping" =>
        createUserMapping(scrubber, call.username, call.email) = scrubber

\* the first call linked an email to the identity of the username, which
\* took the email's key from another identity
C27_Witness ==
    /\ call.op = "createUserMapping"
    /\ scrubber # prev
    /\ scrubber.userCounter = prev.userCounter
    /\ ToLower(call.email) \in DOMAIN prev.userMappings
    /\ prev.userMappings[ToLower(call.email)]
           # scrubber.userMappings[ToLower(call.email)]

-----------------------------------------------------------------------------
(* Lines written back as they came *)

\* the identity table, the counters, the caches and the audit table of s
TablesOf(s) ==
    [userMappings  |-> s.userMappings,
     heap          |-> s.heap,
     userCounter   |-> s.userCounter,
     domainMap     |-> s.domainMap,
     domainCounter |-> s.domainCounter,
     emailMap      |-> s.emailMap,
     userMap       |-> s.userMap,
     ipMap         |-> s.ipMap,
     uidMap        |-> s.uidMap,
     auditEntries  |-> s.auditEntries]

\* C28: when the masked text of a JSON line fails re-validation and the line
\* is written as it came, the identity table, the user and domain counters,
\* the replacement caches and the audit table are as they were before the
\* line was processed.
C28_RevertLeavesSession ==
    \A i \in Corrupted : TablesOf(After(i)) = TablesOf(before[i])

-----------------------------------------------------------------------------
(* The caches against the identity table *)

\* C29: every entry of emailMap is what getUserMappedEmail renders for its
\* key in the current state, and every entry of userMap is what
\* getUserMappedName renders for its key, so a lookup served by the cache
\* gives the replacement the identity table would give.
C29_CacheTransparency ==
    /\ \A key \in DOMAIN scrubber.emailMap :
           scrubber.emailMap[key] = getUserMappedEmail(scrubber, key).out
    /\ \A key \in DOMAIN scrubber.userMap :
           scrubber.userMap[key] = getUserMappedName(scrubber, key).out

-----------------------------------------------------------------------------
(* Ordinals in the order of the output *)

\* field p of written line i shows ordinal n, as user<n> or user<n>@...
Shows(n, i, p) ==
    LET v == output[i].fields[p].val
    IN v = SprintfUser(n) \/ SameOrdinal(SprintfUser(n), v)

\* where the output shows ordinal n: line and field, in the order of the text
Positions(n) ==
    {a \in UNION {{<<i, p>> : p \in 1..Len(output[i].fields)} : i \in 1..Len(output)} :
        Shows(n, a[1], a[2])}

Earlier(a, b) == a[1] < b[1] \/ (a[1] = b[1] /\ a[2] < b[2])

\* C30: the output shows every ordinal that has been allocated, and an
\* ordinal is first shown only after every smaller ordinal has been shown.
C30_SequentialOutput ==
    /\ \A n \in 1..scrubber.userCounter : Positions(n) # {}
    /\ \A n \in 1..scrubber.userCounter : \A m \in 1..(n - 1) :
           \E a \in Positions(m) : \A b \in Positions(n) : Earlier(a, b)

====
